---------------------------- MODULE Spec2Model ----------------------------
(***************************************************************************)
(* A model of CrossDown/Core.py: the dialogue block parser                 *)
(* (DialogueParser), the outline block processor (Syllabus) under the      *)
(* host's block dispatch loop, the inline-code formatter (InlineCode) and  *)
(* the attribute-setting inline pattern (ID).                              *)
(*                                                                         *)
(* A Python str is a sequence of one-character strings.  The directions    *)
(* '左' '中' '右' are written "left" "center" "right" and the kinds '普通'    *)
(* '心理' are written "normal" "thought".                                    *)
(***************************************************************************)
EXTENDS Naturals, Sequences, FiniteSets

VARIABLES
    \* DialogueBlock.on_end / DialogueParser
    block_text,     \* block.text of the fenced block's element
    title_class,    \* class attribute of self.title
    box_class,      \* class attribute of self.box
    box,            \* children of self.box: the dialog rows
    br,             \* whether the trailing <br> has been appended to block
    split_lines,    \* self.block.text.split('\n'), fixed when the loop starts
    done_lines,     \* how many entries of split_lines the loop has handled
    raised,         \* the exception that escaped DialogueParser, or "none"
    dpc,            \* position inside on_end
    \* the host's block parser with Syllabus registered
    blocks,         \* the list of remaining blocks; blocks[1] is Python's blocks[0]
    parent,         \* the children appended to the parent element
    proc,           \* the position of the for loop over the block processors
    \* InlineCode
    variable,       \* self.variable: the mapping passed to main
    inline_args,    \* the arguments of the last InlineCode.__call__
    inline_out,     \* what that call returned
    \* ID
    id_value,       \* self.value of the ID instance
    id_m,           \* the match object of the last ID.handleMatch
    id_out          \* what that call returned

dvars == <<block_text, title_class, box_class, box, br, split_lines,
           done_lines, raised, dpc>>

svars == <<blocks, parent, proc>>

ivars == <<variable, inline_args, inline_out>>

pvars == <<id_value, id_m, id_out>>

vars == <<dvars, svars, ivars, pvars>>

-----------------------------------------------------------------------------
(* Strings *)

\* Python's None, where a str is expected (an element's unset text).
None == <<"None">>

Min(S) == CHOOSE x \in S : \A y \in S : x <= y

Max(S) == CHOOSE x \in S : \A y \in S : x >= y

\* All strings over alphabet A of length at most n.
StringsUpTo(A, n) == UNION {[1..k -> A] : k \in 0..n}

\* The regex atom "." (no DOTALL flag): any character but a newline.
Dot(c) == c # "\n"

\* The longest run of "." characters of s starting at position p.
DotRun(s, p) ==
    LET stops == {k \in p..Len(s) : ~Dot(s[k])}
        last  == IF stops = {} THEN Len(s) ELSE Min(stops) - 1
    IN  SubSeq(s, p, last)

\* str.split('\n'): the pieces between newlines, empty pieces kept.
RECURSIVE split(_)
split(s) ==
    LET nl == {k \in 1..Len(s) : s[k] = "\n"}
    IN  IF nl = {} THEN <<s>>
        ELSE <<SubSeq(s, 1, Min(nl) - 1)>> \o split(SubSeq(s, Min(nl) + 1, Len(s)))

\* The parts of the program a specification leaves at rest.
DIdle ==
    /\ block_text = <<>>
    /\ title_class = ""
    /\ box_class = ""
    /\ box = <<>>
    /\ br = FALSE
    /\ split_lines = <<>>
    /\ done_lines = 0
    /\ raised = "none"
    /\ dpc = "idle"

SIdle == blocks = <<>> /\ parent = <<>> /\ proc = 0

\* The formatter has not been called: no class has been passed yet.
NoCall == [source |-> <<>>, language |-> <<>>, css_class |-> <<>>]

\* handleMatch has not been called: there is no match object yet.
NoM == [groups |-> <<>>, start |-> 0, end |-> 0]

IIdle == variable = <<>> /\ inline_args = NoCall /\ inline_out = None

PIdle == id_value = None /\ id_m = NoM /\ id_out = None

-----------------------------------------------------------------------------
(* DialogueParser *)

MaxTextLen == 5

DialogueAlphabet == {"a", "b", "<", ">", "\n"}

\* The result of a failed re.match.
NoMatch == <<>>

\* DialogueRe with a greedy group 1, (.+)([<>]+)(.+): the last separator run
\* splits the line.
DialogueRe_Greedy(line) ==
    LET n == Len(line)
        ok(i, j) == /\ i + j + 1 <= n
                    /\ \A k \in 1..i : Dot(line[k])
                    /\ \A k \in (i + 1)..(i + j) : line[k] \in {"<", ">"}
                    /\ Dot(line[i + j + 1])
        starts == {i \in 1..n : \E j \in 1..n : ok(i, j)}
    IN  IF starts = {} THEN NoMatch
        ELSE LET i == Max(starts)
                 j == Max({jj \in 1..n : ok(i, jj)})
             IN  <<SubSeq(line, 1, i), SubSeq(line, i + 1, i + j),
                   DotRun(line, i + j + 1)>>

\* re.compile(r'(.+?)([<>]+)(.+)').match(line): the groups of the first match in
\* backtracking order (lazy group 1: shortest first; greedy run: longest first;
\* greedy group 3: all that "." takes), or NoMatch.
DialogueRe(line) ==
    LET n == Len(line)
        ok(i, j) == /\ i + j + 1 <= n
                    /\ \A k \in 1..i : Dot(line[k])
                    /\ \A k \in (i + 1)..(i + j) : line[k] \in {"<", ">"}
                    /\ Dot(line[i + j + 1])
        starts == {i \in 1..n : \E j \in 1..n : ok(i, j)}
    IN  IF starts = {} THEN NoMatch
        ELSE LET i == Min(starts)
                 j == Max({jj \in 1..n : ok(i, jj)})
             IN  <<SubSeq(line, 1, i), SubSeq(line, i + 1, i + j),
                   DotRun(line, i + j + 1)>>

\* DialogueParser.line: the dialog-row element appended to self.box.
line(direction, charactor, text, type_) ==
    [class  |-> "dialog-row",
     left   |-> [class |-> IF direction = "left" THEN "user-name left"
                                                 ELSE "user-name ",
                 text  |-> IF direction = "left" THEN charactor ELSE None],
     middle |-> [class    |-> "message-content",
                 text     |-> IF type_ = "normal" THEN text ELSE None,
                 children |-> IF type_ = "thought"
                                THEN <<[tag |-> "p", class |-> "thought",
                                        text |-> text]>>
                                ELSE <<>>],
     right  |-> [class |-> IF direction = "right" THEN "user-name right"
                                                  ELSE "user-name ",
                 text  |-> IF direction = "right" THEN charactor ELSE None]]

\* The exception raised inside the try of DialogueParser.lines: None has no
\* attribute groups.
TryGroups(m) == IF m = NoMatch THEN "AttributeError" ELSE "none"

\* An except clause that names another exception.
Handled_TypeError == "TypeError"

\* The exception the except clause of DialogueParser.lines handles.
Handled == "AttributeError"

\* The separator branches of DialogueParser.lines.
SepRows(m) ==
    IF m[2] = <<">">> THEN <<line("left", m[1], m[3], "normal")>>
    ELSE IF m[2] = <<"<">> THEN <<line("right", m[1], m[3], "normal")>>
    ELSE IF m[2] = <<">", ">">> THEN <<line("left", m[1], m[3], "thought")>>
    ELSE IF m[2] = <<"<", "<">> THEN <<line("right", m[1], m[3], "thought")>>
    ELSE <<>>

\* lines with the name and the text of a narration line swapped.
lines_NarrationSwapped(l) ==
    IF l = <<>> THEN [rows |-> <<>>, raised |-> "none"]
    ELSE LET m == DialogueRe(l)
         IN  IF m = NoMatch
               THEN [rows |-> <<line("center", l, <<>>, "normal")>>, raised |-> "none"]
               ELSE [rows |-> SepRows(m), raised |-> "none"]

\* lines without the test for an empty line.
lines_KeepBlank(l) ==
    LET m == DialogueRe(l)
    IN  IF m = NoMatch
          THEN [rows |-> <<line("center", <<>>, l, "normal")>>, raised |-> "none"]
          ELSE [rows |-> SepRows(m), raised |-> "none"]

\* DialogueParser.lines: the rows it appends to self.box and the exception that
\* escapes it.
lines(l) ==
    IF l = <<>> THEN [rows |-> <<>>, raised |-> "none"]
    ELSE LET m   == DialogueRe(l)
             exc == TryGroups(m)
         IN  IF exc # "none"
               THEN IF exc = Handled
                      THEN [rows |-> <<line("center", <<>>, l, "normal")>>,
                            raised |-> "none"]
                      ELSE [rows |-> <<>>, raised |-> exc]
               ELSE [rows |-> SepRows(m), raised |-> "none"]

\* DialogueBlock.on_end has been entered: DialogueParser.__init__ has created the
\* title and box elements under the block, whose text is the raw block body.
DStart ==
    /\ block_text \in StringsUpTo(DialogueAlphabet, MaxTextLen)
    /\ title_class = ""
    /\ box_class = ""
    /\ box = <<>>
    /\ br = FALSE
    /\ split_lines = <<>>
    /\ done_lines = 0
    /\ raised = "none"
    /\ dpc = "call"

\* DialogueParser.__call__ up to the evaluation of the for statement's iterable.
CallStart ==
    /\ dpc = "call"
    /\ title_class' = "message-title"
    /\ box_class' = "dialog-container"
    /\ split_lines' = split(block_text)
    /\ done_lines' = 0
    /\ dpc' = "loop"
    /\ UNCHANGED <<block_text, box, br, raised>>
    /\ UNCHANGED <<svars, ivars, pvars>>

\* One iteration of the for statement: self.lines(block_).
CallLine ==
    /\ dpc = "loop"
    /\ done_lines < Len(split_lines)
    /\ LET r == lines(split_lines[done_lines + 1])
       IN  /\ box' = box \o r.rows
           /\ raised' = r.raised
           /\ dpc' = IF r.raised = "none" THEN "loop" ELSE "failed"
    /\ done_lines' = done_lines + 1
    /\ UNCHANGED <<block_text, title_class, box_class, br, split_lines>>
    /\ UNCHANGED <<svars, ivars, pvars>>

\* The for statement is exhausted: the trailing <br> is appended and __call__
\* returns.
CallFinish ==
    /\ dpc = "loop"
    /\ done_lines = Len(split_lines)
    /\ br' = TRUE
    /\ dpc' = "returned"
    /\ UNCHANGED <<block_text, title_class, box_class, box, split_lines,
                   done_lines, raised>>
    /\ UNCHANGED <<svars, ivars, pvars>>

\* DialogueBlock.on_end after the parser returned: block.text = ''.
OnEndClear ==
    /\ dpc = "returned"
    /\ block_text' = <<>>
    /\ dpc' = "done"
    /\ UNCHANGED <<title_class, box_class, box, br, split_lines, done_lines,
                   raised>>
    /\ UNCHANGED <<svars, ivars, pvars>>

DNext == CallStart \/ CallLine \/ CallFinish \/ OnEndClear

DInit == DStart /\ SIdle /\ IIdle /\ PIdle

SpecDialogue == DInit /\ [][DNext]_vars

-----------------------------------------------------------------------------
(* Reading a dialog row back as a turn *)

Txt(t) == IF t = None THEN <<>> ELSE t

\* The turn a dialog-row element shows: the side that carries the style marker,
\* the name in the name cells, the text of the content cell, and whether that
\* text sits in a nested "thought" element.
TurnOf(row) ==
    [direction |-> IF row.left.class = "user-name left" THEN "left"
                   ELSE IF row.right.class = "user-name right" THEN "right"
                   ELSE "center",
     speaker   |-> Txt(row.left.text) \o Txt(row.right.text),
     utterance |-> IF row.middle.children = <<>> THEN row.middle.text
                   ELSE row.middle.children[1].text,
     kind      |-> IF row.middle.children = <<>> /\ row.middle.text # None
                     THEN "normal" ELSE "inner-thought"]

Turn(d, s, u, k) == [direction |-> d, speaker |-> s, utterance |-> u, kind |-> k]

Seps == {<<">">>, <<"<">>, <<">", ">">>, <<"<", "<">>}

SepDirection(sep) == IF sep[1] = ">" THEN "left" ELSE "right"

SepKind(sep) == IF Len(sep) = 1 THEN "normal" ELSE "inner-thought"

HasAngle(s) == \E k \in 1..Len(s) : s[k] \in {"<", ">"}

\* The step handles one more entry of split_lines.
LineStep == done_lines' = done_lines + 1

\* The step appended exactly the one row whose turn is t.
AppendsTurn(t) ==
    /\ Len(box') = Len(box) + 1
    /\ SubSeq(box', 1, Len(box)) = box
    /\ TurnOf(box'[Len(box')]) = t

\* The last handled entry of split_lines.
LastLine == split_lines[done_lines]

\* C1 as stated: for every line A + sep + B with A and B non-empty and sep one of
\* '>', '<', '>>', '<<', lines appends exactly one turn with speaker A, utterance
\* B, and the direction and kind of sep.
C1_AnySplit ==
    [][LineStep =>
        LET l == split_lines[done_lines']
        IN  \A i \in 1..Len(l) : \A j \in 1..2 :
              (i + j < Len(l) /\ SubSeq(l, i + 1, i + j) \in Seps)
                => AppendsTurn(Turn(SepDirection(SubSeq(l, i + 1, i + j)),
                                    SubSeq(l, 1, i),
                                    SubSeq(l, i + j + 1, Len(l)),
                                    SepKind(SubSeq(l, i + 1, i + j))))]_vars

\* l = A + sep + B with |A| = i, |sep| = j, sep one of the four separators, A
\* and B non-empty, no '<' or '>' in A, and B not starting with '<' or '>'.
CleanSplit(l, i, j) ==
    /\ i >= 1
    /\ i + j < Len(l)
    /\ SubSeq(l, i + 1, i + j) \in Seps
    /\ ~HasAngle(SubSeq(l, 1, i))
    /\ l[i + j + 1] \notin {"<", ">"}

\* C1 amended: for every line A + sep + B with A and B non-empty, sep one of
\* '>', '<', '>>', '<<', A free of '<' and '>', and B not starting with '<' or
\* '>', lines appends exactly one turn with speaker A, utterance B, and the
\* direction and kind of sep ('>' left/normal, '<' right/normal, '>>'
\* left/inner-thought, '<<' right/inner-thought).
C1_Separator ==
    [][LineStep =>
        LET l == split_lines[done_lines']
        IN  \A i \in 1..Len(l) : \A j \in 1..2 :
              CleanSplit(l, i, j)
                => AppendsTurn(Turn(SepDirection(SubSeq(l, i + 1, i + j)),
                                    SubSeq(l, 1, i),
                                    SubSeq(l, i + j + 1, Len(l)),
                                    SepKind(SubSeq(l, i + 1, i + j))))]_vars

\* A line "A<<B" whose utterance holds a further '>' has been handled and its
\* row shows (right, A, B, inner-thought).
C1_Witness ==
    /\ dpc = "loop"
    /\ done_lines >= 1
    /\ box # <<>>
    /\ \E i \in 1..Len(LastLine) :
         /\ CleanSplit(LastLine, i, 2)
         /\ SubSeq(LastLine, i + 1, i + 2) = <<"<", "<">>
         /\ HasAngle(SubSeq(LastLine, i + 3, Len(LastLine)))
         /\ TurnOf(box[Len(box)]) =
              Turn("right", SubSeq(LastLine, 1, i),
                   SubSeq(LastLine, i + 3, Len(LastLine)), "inner-thought")

\* C2: every non-blank line without '<' or '>', and every non-blank line the
\* pattern does not match, yields exactly one narration turn: center, no
\* speaker, normal, the whole line as utterance.
C2_Narration ==
    [][LineStep =>
        LET l == split_lines[done_lines']
        IN  (l # <<>> /\ (~HasAngle(l) \/ DialogueRe(l) = NoMatch))
              => AppendsTurn(Turn("center", <<>>, l, "normal"))]_vars

\* A line that holds a '<' or '>' and still is not matched (a leading or
\* trailing separator) has been handled and its row is narration.
C2_Witness ==
    /\ dpc = "loop"
    /\ done_lines >= 1
    /\ Len(LastLine) >= 2
    /\ HasAngle(LastLine)
    /\ \A k \in 2..(Len(LastLine) - 1) : LastLine[k] \notin {"<", ">"}
    /\ box # <<>>
    /\ TurnOf(box[Len(box)]) = Turn("center", <<>>, LastLine, "normal")

\* '\n'.join(ls)
RECURSIVE join(_)
join(ls) ==
    IF Len(ls) = 0 THEN <<>>
    ELSE IF Len(ls) = 1 THEN ls[1]
    ELSE ls[1] \o <<"\n">> \o join(Tail(ls))

\* The rows of the first n entries of ls, in order, a blank entry giving none.
RECURSIVE RowsOf(_, _)
RowsOf(ls, n) ==
    IF n = 0 THEN <<>>
    ELSE RowsOf(ls, n - 1) \o (IF ls[n] = <<>> THEN <<>> ELSE lines(ls[n]).rows)

\* C3: the loop runs over the block text split on newline; after any prefix of
\* the lines the container's rows are the turns of that prefix's lines in source
\* order, blank lines giving none; at the end there are fewer turns than lines
\* whenever a line is blank.
C3_PrefixOrder ==
    /\ dpc \in {"loop", "returned"}
         => /\ join(split_lines) = block_text
            /\ \A k \in 1..Len(split_lines) :
                 \A p \in 1..Len(split_lines[k]) : split_lines[k][p] # "\n"
    /\ dpc \in {"loop", "returned", "done"}
         => /\ box = RowsOf(split_lines, done_lines)
            /\ Len(box) <= done_lines
    /\ (dpc \in {"returned", "done"} /\ \E k \in 1..Len(split_lines) : split_lines[k] = <<>>)
         => Len(box) < Len(split_lines)

\* The parser has returned from a text with a blank line between two lines that
\* gave a turn each.
C3_Witness ==
    /\ dpc = "returned"
    /\ Len(split_lines) = 3
    /\ split_lines[2] = <<>>
    /\ Len(box) = 2
    /\ TurnOf(box[1]).utterance # TurnOf(box[2]).utterance

\* C4: lines never raises; it appends one row or none, and none exactly for a
\* blank line and for a matched separator run other than '>', '<', '>>', '<<'.
C4_NeverFails ==
    [][LineStep =>
        LET l == split_lines[done_lines']
        IN  /\ raised' = "none"
            /\ dpc' = "loop"
            /\ Len(box') \in {Len(box), Len(box) + 1}
            /\ SubSeq(box', 1, Len(box)) = box
            /\ (Len(box') = Len(box))
                 <=> (l = <<>> \/ (DialogueRe(l) # NoMatch /\ DialogueRe(l)[2] \notin Seps))]_vars

\* A line whose separator run has three characters has been handled and gave no
\* row.
C4_Witness ==
    /\ dpc = "loop"
    /\ done_lines = 1
    /\ raised = "none"
    /\ DialogueRe(LastLine) # NoMatch
    /\ Len(DialogueRe(LastLine)[2]) = 3
    /\ box = <<>>

-----------------------------------------------------------------------------
(* Syllabus and the host's block dispatch *)

MaxBlockLen == 5

MaxSegs == 3

MaxTitleLen == 2

BlockAlphabet == {"1", ".", " ", "a", "\n"}

Digits == {"0", "1", "2", "3", "4", "5", "6", "7", "8", "9"}

\* The regex class \s, as far as TLA+ strings can write it.
IsSpace(c) == c \in {" ", "\t", "\n", "\r", "\f"}

\* The positions where \d+ started at p can end.
DigitRunEnds(s, p) == {q \in p..Len(s) : \A k \in p..q : s[k] \in Digits}

\* The positions where (\.\d+)* can end, given the set E of positions where the
\* pattern before it ended.
RECURSIVE DotGroupEnds(_, _)
DotGroupEnds(s, E) ==
    LET more == UNION {DigitRunEnds(s, q + 2) :
                         q \in {e \in E : e + 1 <= Len(s) /\ s[e + 1] = "."}}
    IN  IF more \subseteq E THEN E ELSE DotGroupEnds(s, E \cup more)

\* SyllabusRe with a title that may not be empty, (\d+(\.\d+)*)\s+(.+): the
\* whitespace run gives back what the title needs.
SyllabusRe_TitleRequired(block) ==
    LET ends == {e \in DotGroupEnds(block, DigitRunEnds(block, 1)) :
                   e + 1 <= Len(block) /\ IsSpace(block[e + 1])}
    IN  IF ends = {} THEN NoMatch
        ELSE LET e  == Max(ends)
                 ks == {k \in (e + 1)..(Len(block) - 1) :
                          /\ \A q \in (e + 1)..k : IsSpace(block[q])
                          /\ Dot(block[k + 1])}
             IN  IF ks = {} THEN NoMatch
                 ELSE <<SubSeq(block, 1, e), DotRun(block, Max(ks) + 1)>>

\* re.match(r'(\d+(\.\d+)*)\s+(.*)', block): <<group 1, group 3>> of the first
\* match in backtracking order (every quantifier greedy), or NoMatch.  Group 2,
\* the last repetition of (\.\d+), is not read by the program.
SyllabusRe(block) ==
    LET ends == {e \in DotGroupEnds(block, DigitRunEnds(block, 1)) :
                   e + 1 <= Len(block) /\ IsSpace(block[e + 1])}
    IN  IF ends = {} THEN NoMatch
        ELSE LET e  == Max(ends)
                 ns == {k \in (e + 1)..Len(block) : ~IsSpace(block[k])}
                 w  == IF ns = {} THEN Len(block) ELSE Min(ns) - 1
             IN  <<SubSeq(block, 1, e), DotRun(block, w + 1)>>

\* Syllabus.test: whether the match object it returns is truthy.
test(parent_, block) == SyllabusRe(block) # NoMatch

DigitChar == <<"0", "1", "2", "3", "4", "5", "6", "7", "8", "9">>

\* str(n) inside the f-string.
RECURSIVE str(_)
str(n) == IF n < 10 THEN <<DigitChar[n + 1]>>
          ELSE str(n \div 10) \o <<DigitChar[(n % 10) + 1]>>

\* len(s.split("."))
SplitDotLen(s) == Cardinality({k \in 1..Len(s) : s[k] = "."}) + 1

\* run with the level taken from the id's length.
run_LevelByLength(parent_, blocks_) ==
    LET syllabus == SyllabusRe(blocks_[1])
        header   == [tag  |-> <<"h">> \o str(Len(syllabus[1])),
                     id   |-> syllabus[1],
                     text |-> syllabus[1] \o <<" ">> \o syllabus[2]]
    IN  [parent |-> Append(parent_, header),
         blocks |-> <<<<>>>> \o Tail(blocks_),
         ret    |-> "False"]

\* Syllabus.run on a list whose first block matches: the parent's children, the
\* list and the value returned.
run(parent_, blocks_) ==
    LET syllabus == SyllabusRe(blocks_[1])
        header   == [tag  |-> <<"h">> \o str(SplitDotLen(syllabus[1])),
                     id   |-> syllabus[1],
                     text |-> syllabus[1] \o <<" ">> \o syllabus[2]]
    IN  [parent |-> Append(parent_, header),
         blocks |-> <<<<>>>> \o Tail(blocks_),
         ret    |-> "False"]

\* s.strip() is not empty
StripsToText(s) == \E k \in 1..Len(s) : ~IsSpace(s[k])

\* s.lstrip()
lstrip(s) ==
    LET ns == {k \in 1..Len(s) : ~IsSpace(s[k])}
    IN  IF ns = {} THEN <<>> ELSE SubSeq(s, Min(ns), Len(s))

\* The block processors in priority order: Syllabus (182) before the host's own,
\* of which the empty-block and the paragraph processor stand for the rest.
Processors == <<"syllabus", "empty", "paragraph">>

\* The for loop stands at the processor of this name.
AtProcessor(name) == proc \in 1..Len(Processors) /\ Processors[proc] = name

\* The host leaves its for loop when run returned anything but False.
Handles(ret) == ret # "False"

\* The for loop's next position after a processor's turn.
AfterTurn(tested, ret) == IF tested /\ Handles(ret) THEN 1 ELSE proc + 1

\* Every dotted id of at most n segments, a segment being "1" or "11".
RECURSIVE DottedIds(_)
DottedIds(n) ==
    IF n = 0 THEN {}
    ELSE LET segs == {<<"1">>, <<"1", "1">>}
         IN  segs \cup {d \o <<".">> \o g : d \in DottedIds(n - 1), g \in segs}

NoBlankLine(s) == \A k \in 1..(Len(s) - 1) : ~(s[k] = "\n" /\ s[k + 1] = "\n")

\* The blocks the host can hand over: it splits the document on blank lines.
SyllabusBlocks ==
    {b \in StringsUpTo(BlockAlphabet, MaxBlockLen)
             \cup {d \o <<" ">> \o t : d \in DottedIds(MaxSegs),
                                      t \in StringsUpTo(BlockAlphabet, MaxTitleLen)} :
       NoBlankLine(b)}

\* parseBlocks has been called on a document of one or two blocks.
SStart ==
    /\ \E b \in SyllabusBlocks :
         \E rest \in {<<>>, <<<<"a">>>>, <<<<"1", " ", "a">>>>} :
           blocks = <<b>> \o rest
    /\ parent = <<>>
    /\ proc = 1

\* The for loop reaches Syllabus: test, and run if it is truthy.
SyllabusTurn ==
    /\ AtProcessor("syllabus")
    /\ blocks # <<>>
    /\ IF test(parent, blocks[1])
         THEN LET r == run(parent, blocks)
              IN  /\ parent' = r.parent
                  /\ blocks' = r.blocks
                  /\ proc' = AfterTurn(TRUE, r.ret)
         ELSE /\ proc' = AfterTurn(FALSE, "None")
              /\ UNCHANGED <<parent, blocks>>
    /\ UNCHANGED <<dvars, ivars, pvars>>

\* The for loop reaches the host's EmptyBlockProcessor: it takes an empty block,
\* or the empty first line of a block, and returns None.
EmptyTurn ==
    /\ AtProcessor("empty")
    /\ blocks # <<>>
    /\ IF blocks[1] = <<>> \/ blocks[1][1] = "\n"
         THEN /\ blocks' = IF Len(blocks[1]) > 1
                             THEN <<Tail(blocks[1])>> \o Tail(blocks)
                             ELSE Tail(blocks)
              /\ proc' = AfterTurn(TRUE, "None")
         ELSE /\ proc' = AfterTurn(FALSE, "None")
              /\ UNCHANGED blocks
    /\ UNCHANGED parent
    /\ UNCHANGED <<dvars, ivars, pvars>>

\* The for loop reaches the host's ParagraphProcessor: it takes any block, makes
\* a paragraph of it unless it is blank, and returns None.
ParagraphTurn ==
    /\ AtProcessor("paragraph")
    /\ blocks # <<>>
    /\ blocks' = Tail(blocks)
    /\ parent' = IF StripsToText(blocks[1])
                   THEN Append(parent, [tag |-> <<"p">>, id |-> None,
                                        text |-> lstrip(blocks[1])])
                   ELSE parent
    /\ proc' = AfterTurn(TRUE, "None")
    /\ UNCHANGED <<dvars, ivars, pvars>>

SInit == SStart /\ DIdle /\ IIdle /\ PIdle

SNext == SyllabusTurn \/ EmptyTurn \/ ParagraphTurn

SpecSyllabus == SInit /\ [][SNext]_vars

-----------------------------------------------------------------------------
(* Claims about Syllabus *)

\* s is digit groups joined by single dots: a dotted numeric id.
IsDottedId(s) ==
    /\ s # <<>>
    /\ \A k \in 1..Len(s) : s[k] \in Digits \cup {"."}
    /\ s[1] # "." /\ s[Len(s)] # "."
    /\ \A k \in 1..(Len(s) - 1) : ~(s[k] = "." /\ s[k + 1] = ".")

\* The number of dot-separated segments of an id.
Segments(d) == Len(SelectSeq(d, LAMBDA c : c = ".")) + 1

\* The heading of level k with id d and title t.
Heading(k, d, t) ==
    [tag |-> <<"h">> \o str(k), id |-> d, text |-> d \o <<" ">> \o t]

\* The step is Syllabus's turn on the head block.
SyllabusActs ==
    /\ AtProcessor("syllabus")
    /\ blocks # <<>>
    /\ <<blocks, parent, proc>>' # <<blocks, parent, proc>>

\* C5 as stated: for every dotted id d of k segments and every title t,
\* Syllabus.run on the block d + ' ' + t appends a heading h<k> with id d and
\* text d + ' ' + t.
C5_AnyTitle ==
    [][SyllabusActs =>
        \A n \in 1..(Len(blocks[1]) - 1) :
          (IsDottedId(SubSeq(blocks[1], 1, n)) /\ blocks[1][n + 1] = " ")
            => parent' = Append(parent,
                                Heading(Segments(SubSeq(blocks[1], 1, n)),
                                        SubSeq(blocks[1], 1, n),
                                        SubSeq(blocks[1], n + 2, Len(blocks[1]))))]_vars

\* t is on one line and does not start with whitespace.
OneLineTitle(t) ==
    /\ \A k \in 1..Len(t) : t[k] # "\n"
    /\ t # <<>> => ~IsSpace(t[1])

\* C5 amended: for every dotted id d of k segments and every title t that holds
\* no newline and does not start with whitespace, Syllabus.run on the block
\* d + ' ' + t appends a heading h<k> with id d and text d + ' ' + t.
C5_Heading ==
    [][SyllabusActs =>
        \A n \in 1..(Len(blocks[1]) - 1) :
          (/\ IsDottedId(SubSeq(blocks[1], 1, n))
           /\ blocks[1][n + 1] = " "
           /\ OneLineTitle(SubSeq(blocks[1], n + 2, Len(blocks[1]))))
            => parent' = Append(parent,
                                Heading(Segments(SubSeq(blocks[1], 1, n)),
                                        SubSeq(blocks[1], 1, n),
                                        SubSeq(blocks[1], n + 2, Len(blocks[1]))))]_vars

\* The block "1.11.1 a" has been run: the parent holds the heading h3 with id
\* "1.11.1" and text "1.11.1 a".
C5_Witness ==
    /\ proc = 2
    /\ parent = <<Heading(3, <<"1", ".", "1", "1", ".", "1">>, <<"a">>)>>

\* The first line of the block matches ^(\d+(\.\d+)*)\s+(.+): an id, whitespace
\* and at least one more character, all before the first newline.
FirstLineMatches(block) ==
    LET first == DotRun(block, 1)
    IN  \E n \in 1..(Len(first) - 2) :
          /\ IsDottedId(SubSeq(first, 1, n))
          /\ IsSpace(first[n + 1])

\* C6 as stated: Syllabus.test is true iff the block's first line matches
\* ^(\d+(\.\d+)*)\s+(.+), and a block whose first line does not match is left
\* unmodified by the outline processor.
C6_FirstLine ==
    [][SyllabusActs =>
         /\ test(parent, blocks[1]) <=> FirstLineMatches(blocks[1])
         /\ ~FirstLineMatches(blocks[1]) => (blocks' = blocks /\ parent' = parent)]_vars

\* The block starts with a dotted numeric id that is followed by a whitespace
\* character: what stands before the block's first whitespace is an id.
StartsWithIdAndSpace(block) ==
    LET ws == {k \in 1..Len(block) : IsSpace(block[k])}
    IN  ws # {} /\ IsDottedId(SubSeq(block, 1, Min(ws) - 1))

\* C6 amended: Syllabus.test is true iff the block starts with a dotted numeric
\* id followed by at least one whitespace character, which may be a newline; the
\* title may be empty or stand on the next line.  A block for which test is false
\* is left unmodified by the outline processor, and so is the parent.
C6_Test ==
    [][SyllabusActs =>
         /\ test(parent, blocks[1]) <=> StartsWithIdAndSpace(blocks[1])
         /\ StartsWithIdAndSpace(blocks[1]) <=> parent' # parent
         /\ ~StartsWithIdAndSpace(blocks[1]) => (blocks' = blocks /\ parent' = parent)]_vars

\* Syllabus has tested and run a block that gave it no title: the heading's
\* text is the id and the space alone, and the block's slot is emptied.
C6_Witness ==
    /\ proc = 2
    /\ parent = <<Heading(2, <<"1", ".", "1">>, <<>>)>>
    /\ blocks = <<<<>>, <<"a">>>>

\* C10: when Syllabus.run has handled the head block, the host leaves its for
\* loop, so that no lower-priority processor gets its turn on that block; the
\* block's content is discarded whole and the blocks after it are unchanged.
C10_Consumed ==
    [][(SyllabusActs /\ test(parent, blocks[1])) =>
         /\ proc' = 1
         /\ blocks'[1] = <<>>
         /\ Tail(blocks') = Tail(blocks)]_vars

-----------------------------------------------------------------------------
(* InlineCode *)

MaxSrcLen == 3

InlineAlphabet == {"#", "-", "a", "\n"}

\* The names main's mapping can hold, each with its value.
VariableItems ==
    {<<<<"a">>, <<"x">>>>, <<<<"a", "a">>, <<"a">>>>, <<<<"#", "a">>, <<"x">>>>,
     <<<<"-", "a">>, <<"y">>>>, <<<<"a", "\n", "a">>, <<"y">>>>}

\* The dict of a set of items.
dict(items) ==
    [k \in {i[1] : i \in items} |-> (CHOOSE i \in items : i[1] = k)[2]]

\* The mappings main is called with: empty, one name, or "a" beside another.
Variables ==
    {dict(S) : S \in {T \in SUBSET VariableItems :
                        \/ Cardinality(T) <= 1
                        \/ Cardinality(T) = 2 /\ <<<<"a">>, <<"x">>>> \in T}}

Languages == {<<>>, <<"p", "y">>}

\* InlineRe with the sigil class [#] only.
InlineRe_HashOnly(source) ==
    IF source # <<>> /\ source[1] = "#"
      THEN <<<<source[1]>>, DotRun(source, 2)>>
      ELSE <<None, DotRun(source, 1)>>

\* re.compile(r'([#-])?(.*)').match(source).groups(): the optional sigil, None
\* when it took nothing, and what "." takes after it.
InlineRe(source) ==
    IF source # <<>> /\ source[1] \in {"#", "-"}
      THEN <<<<source[1]>>, DotRun(source, 2)>>
      ELSE <<None, DotRun(source, 1)>>

\* The return value of the host's highlight_code, known by its arguments only.
highlight_code(src, language, classname) ==
    <<"highlight_code(">> \o src \o <<",">> \o language \o <<",">> \o classname \o <<")">>

\* __call__ with the membership test on the values instead of the keys.
InlineCode__call__InValues(self_variable, source, language, css_class) ==
    IF language # <<>>
      THEN highlight_code(source, language, css_class)
      ELSE LET g == InlineRe(source)
           IN  IF g[1] = <<"#">>
                 THEN <<"<span id=\"">> \o g[2] \o <<"\">">> \o g[2] \o <<"</span>">>
               ELSE IF g[1] = <<"-">>
                 THEN <<"<a href=", "#">> \o g[2] \o <<">">> \o g[2] \o <<"</a>">>
               ELSE IF g[2] \in DOMAIN self_variable
                         /\ g[2] \in {self_variable[k] : k \in DOMAIN self_variable}
                 THEN <<"<code id=\"block\">">> \o self_variable[g[2]] \o <<"</code>">>
                 ELSE <<"<code id=\"block\">">> \o g[2] \o <<"</code>">>

\* InlineCode.__call__: the str it returns.  A piece of markup of an f-string is
\* one element of the sequence, every character put in is one element, and so is
\* the '#' that starts the link target.
InlineCode__call__(self_variable, source, language, css_class) ==
    IF language # <<>>
      THEN highlight_code(source, language, css_class)
      ELSE LET g == InlineRe(source)
           IN  IF g[1] = <<"#">>
                 THEN <<"<span id=\"">> \o g[2] \o <<"\">">> \o g[2] \o <<"</span>">>
               ELSE IF g[1] = <<"-">>
                 THEN <<"<a href=", "#">> \o g[2] \o <<">">> \o g[2] \o <<"</a>">>
               ELSE IF g[2] \in DOMAIN self_variable
                 THEN <<"<code id=\"block\">">> \o self_variable[g[2]] \o <<"</code>">>
                 ELSE <<"<code id=\"block\">">> \o g[2] \o <<"</code>">>

\* main has built InlineCode(variable=variable) for one conversion.
IStart ==
    /\ variable \in Variables
    /\ inline_args = NoCall
    /\ inline_out = None

\* The host calls the formatter on one inline code span; the class is the
\* 'block' main configures.
InlineCall ==
    /\ \E source \in StringsUpTo(InlineAlphabet, MaxSrcLen) : \E language \in Languages :
         /\ inline_args' = [source |-> source, language |-> language,
                            css_class |-> <<"block">>]
         /\ inline_out' = InlineCode__call__(variable, source, language, <<"block">>)
    /\ UNCHANGED variable
    /\ UNCHANGED <<dvars, svars, pvars>>

IInit == IStart /\ DIdle /\ SIdle /\ PIdle

INext == InlineCall

SpecInline == IInit /\ [][INext]_vars

-----------------------------------------------------------------------------
(* ID *)

MaxGroupLen == 2

MaxStart == 2

GroupAlphabet == {"a", "b"}

\* self.value: None, a str, or an int naming a group; the field that does not
\* apply is left empty.
NoValue == [kind |-> "None", str |-> <<>>, int |-> 0]

StrValue(s) == [kind |-> "str", str |-> s, int |-> 0]

IntValue(n) == [kind |-> "int", str |-> <<>>, int |-> n]

\* m.group(n) for n = 1, 2
group(m, n) == m.groups[n]

\* The value tag.set receives in ID.handleMatch.
attribute(self_value, m) ==
    IF self_value = NoValue THEN StrValue(group(m, 2)) ELSE self_value

\* ID.handleMatch of an instance with tag 'span' and property 'title', as
\* BasicExtension registers it: the element, m.start() and m.end().
handleMatch(self_value, m) ==
    [tag   |-> [name |-> "span", text |-> group(m, 1),
                attrib |-> [title |-> attribute(self_value, m)]],
     start |-> m.start,
     end   |-> m.end]

\* A match of r'\[(.*?)]-\((.*?)\)' at offset at: "[" g1 "]-(" g2 ")".
HideMatch(g1, g2, at) ==
    [groups |-> <<g1, g2>>, start |-> at, end |-> at + Len(g1) + Len(g2) + 5]

\* An ID pattern has been constructed with some value.
PStart ==
    /\ id_value \in {NoValue} \cup {StrValue(s) : s \in {<<"a">>, <<"t">>}}
                              \cup {IntValue(n) : n \in 1..2}
    /\ id_m = NoM
    /\ id_out = None

\* The host's inline scan found a match and calls handleMatch.
HandleMatch ==
    /\ \E g1 \in StringsUpTo(GroupAlphabet, MaxGroupLen) :
         \E g2 \in StringsUpTo(GroupAlphabet, MaxGroupLen) :
           \E at \in 0..MaxStart :
             /\ id_m' = HideMatch(g1, g2, at)
             /\ id_out' = handleMatch(id_value, HideMatch(g1, g2, at))
    /\ UNCHANGED id_value
    /\ UNCHANGED <<dvars, svars, ivars>>

PInit == PStart /\ DIdle /\ SIdle /\ IIdle

PNext == HandleMatch

SpecID == PInit /\ [][PNext]_vars

-----------------------------------------------------------------------------
(* Claims about InlineCode and ID *)

Code(text) == <<"<code id=\"block\">">> \o text \o <<"</code>">>

Span(id, text) == <<"<span id=\"">> \o id \o <<"\">">> \o text \o <<"</span>">>

Anchor(href, text) == <<"<a href=">> \o href \o <<">">> \o text \o <<"</a>">>

HasSigil(s) == s # <<>> /\ s[1] \in {"#", "-"}

HasNewline(s) == \E k \in 1..Len(s) : s[k] = "\n"

\* The step is a call of the formatter with no language.
PlainCall == inline_args' # NoCall /\ inline_args'.language = <<>>

\* C7 as stated: with no language, a name that is a key of the mapping renders
\* a code element with the mapping's value, any other name a code element with
\* the name; the mapping is not modified.
C7_AnyName ==
    [][PlainCall =>
        /\ inline_out' = IF inline_args'.source \in DOMAIN variable
                           THEN Code(variable[inline_args'.source])
                           ELSE Code(inline_args'.source)
        /\ variable' = variable]_vars

\* C7 amended: with no language, for every name that does not start with '#'
\* or '-' and holds no newline: if it is a key of the mapping the call renders
\* a code element with the mapping's value, otherwise a code element with the
\* name; no call modifies the mapping.
C7_Variable ==
    [][inline_args' # NoCall =>
        /\ (PlainCall /\ ~HasSigil(inline_args'.source) /\ ~HasNewline(inline_args'.source))
             => inline_out' = IF inline_args'.source \in DOMAIN variable
                                THEN Code(variable[inline_args'.source])
                                ELSE Code(inline_args'.source)
        /\ variable' = variable]_vars

\* The name "aa" has been looked up in a mapping that holds it and "a", and its
\* value came back.
C7_Witness ==
    /\ inline_args # NoCall
    /\ inline_args.language = <<>>
    /\ inline_args.source = <<"a", "a">>
    /\ DOMAIN variable = {<<"a">>, <<"a", "a">>}
    /\ variable[<<"a">>] # variable[<<"a", "a">>]
    /\ inline_out = Code(variable[<<"a", "a">>])

\* s without its first character.
Rest(s) == IF s = <<>> THEN <<>> ELSE Tail(s)

\* The first line of s: s up to its first newline.
FirstLine(s) ==
    IF HasNewline(s) THEN SubSeq(s, 1, Min({k \in 1..Len(s) : s[k] = "\n"}) - 1)
    ELSE s

\* The variable reference outcome for a name.
Lookup(name) == IF name \in DOMAIN variable THEN Code(variable[name]) ELSE Code(name)

\* C8 as stated: a language delegates to the host's highlighter; without one, a
\* leading '#' renders a span with id and text the remainder of the source, a
\* leading '-' an anchor with href '#' + remainder and text the remainder, and
\* any other source is a variable reference (on its first line).
C8_WholeRemainder ==
    [][inline_args' # NoCall =>
        LET a == inline_args'
        IN  inline_out' =
              IF a.language # <<>> THEN highlight_code(a.source, a.language, a.css_class)
              ELSE IF a.source # <<>> /\ a.source[1] = "#"
                THEN Span(Tail(a.source), Tail(a.source))
              ELSE IF a.source # <<>> /\ a.source[1] = "-"
                THEN Anchor(<<"#">> \o Tail(a.source), Tail(a.source))
              ELSE Lookup(FirstLine(a.source))]_vars

\* Which of the four outcomes a returned str is, by the markup it opens with.
OutcomeKind(out) ==
    IF out[1] = "highlight_code(" THEN "highlight"
    ELSE IF out[1] = "<span id=\"" THEN "span"
    ELSE IF out[1] = "<a href=" THEN "anchor"
    ELSE IF out[1] = "<code id=\"block\">" THEN "variable"
    ELSE "none"

\* C8 amended: a language delegates to the host's highlighter with the source
\* untouched; without one, the remainder being the source after the sigil up to
\* the first newline, a leading '#' renders a span with id and text the
\* remainder, a leading '-' an anchor with href '#' + remainder and text the
\* remainder, and any other source is a variable reference on its first line;
\* exactly one of the four outcomes occurs.
C8_Dispatch ==
    [][inline_args' # NoCall =>
        LET a == inline_args'
            r == FirstLine(Rest(a.source))
            k == IF a.language # <<>> THEN "highlight"
                 ELSE IF a.source # <<>> /\ a.source[1] = "#" THEN "span"
                 ELSE IF a.source # <<>> /\ a.source[1] = "-" THEN "anchor"
                 ELSE "variable"
        IN  /\ OutcomeKind(inline_out') = k
            /\ k = "highlight" => inline_out' = highlight_code(a.source, a.language, a.css_class)
            /\ k = "span" => inline_out' = Span(r, r)
            /\ k = "anchor" => inline_out' = Anchor(<<"#">> \o r, r)
            /\ k = "variable" => inline_out' = Lookup(FirstLine(a.source))]_vars

\* The source "-a" has been formatted with no language and gave the anchor to
\* "#a", although the mapping holds "-a" and "a".
C8_Witness ==
    /\ inline_args # NoCall
    /\ inline_args.language = <<>>
    /\ inline_args.source = <<"-", "a">>
    /\ DOMAIN variable = {<<"a">>, <<"-", "a">>}
    /\ inline_out = Anchor(<<"#", "a">>, <<"a">>)

\* C9: the element's text is group 1, and its attribute is group 2 when value is
\* unset, the literal when value is a str, and the text of the group value
\* names when value is an int.
C9_Attribute ==
    [][id_m' # NoM =>
        /\ id_out'.tag.text = group(id_m', 1)
        /\ id_out'.tag.attrib.title =
             IF id_value = NoValue THEN StrValue(group(id_m', 2))
             ELSE IF id_value.kind = "str" THEN id_value
             ELSE StrValue(group(id_m', id_value.int))]_vars

=============================================================================
